---- MODULE Spec2Model ----
(***************************************************************************)
(* Model of monitoring/performance_monitor.py: the DatabaseMonitor class   *)
(* (connect, disconnect, the probes, check_and_alert, monitor) and main(). *)
(*                                                                         *)
(* The database driver is the environment: each call into it (connect, a   *)
(* probe's cursor/execute/fetch) either returns a scripted response or     *)
(* raises a driver error.  A KeyboardInterrupt is the stop signal.         *)
(***************************************************************************)
EXTENDS Integers, Sequences, FiniteSets, TLC

----------------------------------------------------------------------------
(* Bounds of the model *)

MaxRecords == 2
MaxChecks == 2
MaxSessions == 2
MaxSeconds == 1

----------------------------------------------------------------------------
(* Values *)

\* Python None / SQL NULL in a numeric column (real values are >= 0).
Null == -1

\* `duration: Optional[int] = None`: no total-duration budget.
NoDuration == Null

\* self.connection = None
NoConnection == 0

\* The literals of check_and_alert.
VerySlowMs == 5000
ActiveThreshold == 100
CacheThreshold == 95

SupportedTypes == {"postgresql", "mysql"}

\* The db_type tags a caller may pass to __init__.
DbTags == {"postgresql", "PostgreSQL", "mysql", "MySQL", "sqlite"}

\* db_type.lower() on these tags.
Lower(tag) ==
    CASE tag = "PostgreSQL" -> "postgresql"
      [] tag = "MySQL" -> "mysql"
      [] OTHER -> tag

DbTypes == {Lower(tag) : tag \in DbTags}

\* Python truthiness of a number-or-None: None and 0 are falsy.
Truthy(v) == v /= Null /\ v /= 0

----------------------------------------------------------------------------
(* Scripted driver responses *)

\* The duration column as the server reports it: postgresql gives
\* duration_ms directly, mysql gives Time in whole seconds.
RawDurations(dbt) == IF dbt = "mysql" THEN {5, 6} ELSE {5000, 5001}

\* The query_preview column: a text, or NULL (mysql's Info column is NULL
\* for threads that execute no statement).
Previews == {"text", "NULL"}

RawRows(dbt) == [dur : RawDurations(dbt), preview : Previews]

SeqsUpTo(S, n) == UNION {[1..k -> S] : k \in 0..n}

\* What the slow-query statement does on the driver: raises, or yields rows.
SlowResponses(dbt) ==
    {[exc |-> "DriverError", rows |-> <<>>]}
        \cup {[exc |-> "none", rows |-> r] : r \in SeqsUpTo(RawRows(dbt), MaxRecords)}

ActiveVals == {100, 101}
CacheVals == {Null, 0, 94, 95}

\* What the statistics statements do: raise, or yield the scalar of each.
StatsResponses ==
    {[exc |-> "DriverError", active |-> 100, cache |-> Null]}
        \cup [exc : {"none"}, active : ActiveVals, cache : CacheVals]

----------------------------------------------------------------------------
(* The probes *)

\* The exception classes a probe can meet that derive from Exception: a
\* driver error, and the AttributeError of `None.cursor()`.
ExceptionSubclasses == {"DriverError", "AttributeError"}

\* Variant: a handler narrower than Exception, which lets driver errors pass.
ProbeCatches_OnlyAttributeError(exc) == exc = "AttributeError"

\* `except Exception as e:` of every probe.
ProbeCatches(exc) == exc \in ExceptionSubclasses

\* dict(zip(columns, row)): the server's duration_ms is taken as it is.
RowToRecordPostgresql(row) ==
    [duration_ms |-> row.dur, query_preview |-> row.preview]

\* 'duration_ms': row[3] * 1000  -- seconds converted to milliseconds.
RowToRecordMysql(row) ==
    [duration_ms |-> row.dur * 1000, query_preview |-> row.preview]

\* A probe's outcome: the value it returns, or the exception that escapes it.
get_slow_queries_postgresql(resp) ==
    IF resp.exc = "none"
    THEN [raised |-> "none",
          value |-> [i \in 1..Len(resp.rows) |-> RowToRecordPostgresql(resp.rows[i])]]
    ELSE IF ProbeCatches(resp.exc)
         THEN [raised |-> "none", value |-> <<>>]
         ELSE [raised |-> resp.exc, value |-> <<>>]

get_slow_queries_mysql(resp) ==
    IF resp.exc = "none"
    THEN [raised |-> "none",
          value |-> [i \in 1..Len(resp.rows) |-> RowToRecordMysql(resp.rows[i])]]
    ELSE IF ProbeCatches(resp.exc)
         THEN [raised |-> "none", value |-> <<>>]
         ELSE [raised |-> resp.exc, value |-> <<>>]

\* An unsupported db_type issues no probe and yields [].
get_slow_queries(dbt, resp) ==
    IF dbt = "postgresql" THEN get_slow_queries_postgresql(resp)
    ELSE IF dbt = "mysql" THEN get_slow_queries_mysql(resp)
    ELSE [raised |-> "none", value |-> <<>>]

\* A stats dict: a mapping whose domain is the set of keys present.
\* total_connections and database_size are only logged and are left out.
StatsMap(keys, active, cache) ==
    [k \in keys |-> IF k = "active_connections" THEN active ELSE cache]

EmptyStats == StatsMap({}, 0, 0)

get_database_stats_postgresql(resp) ==
    IF resp.exc = "none"
    THEN [raised |-> "none",
          value |-> StatsMap({"active_connections", "cache_hit_ratio"},
                             resp.active, resp.cache)]
    ELSE IF ProbeCatches(resp.exc)
         THEN [raised |-> "none", value |-> EmptyStats]
         ELSE [raised |-> resp.exc, value |-> EmptyStats]

\* The mysql statistics have no cache_hit_ratio key.
get_database_stats_mysql(resp) ==
    IF resp.exc = "none"
    THEN [raised |-> "none",
          value |-> StatsMap({"active_connections"}, resp.active, resp.cache)]
    ELSE IF ProbeCatches(resp.exc)
         THEN [raised |-> "none", value |-> EmptyStats]
         ELSE [raised |-> resp.exc, value |-> EmptyStats]

get_database_stats(dbt, resp) ==
    IF dbt = "postgresql" THEN get_database_stats_postgresql(resp)
    ELSE IF dbt = "mysql" THEN get_database_stats_mysql(resp)
    ELSE [raised |-> "none", value |-> EmptyStats]

\* The number of probe methods a call of get_slow_queries/get_database_stats
\* enters.
ProbesEntered(dbt) == IF dbt \in SupportedTypes THEN 1 ELSE 0

----------------------------------------------------------------------------
(* check_and_alert *)

\* A finding is one send_alert call; rec is the position (the loop's i) of
\* the slow-query record it is about, 0 for a statistics finding.
Finding(subject, rec) == [subject |-> subject, rec |-> rec]

\* The loop over slow_queries from record i on: the alerts it sends and the
\* exception that ends it.  preview[:80] raises TypeError on None, after
\* the record's log line and before its alert.
RECURSIVE SlowLoop(_, _)
SlowLoop(sq, i) ==
    IF i > Len(sq) THEN [alerts |-> <<>>, raised |-> "none"]
    ELSE IF sq[i].query_preview = "NULL"
         THEN [alerts |-> <<>>, raised |-> "TypeError"]
         ELSE LET rest == SlowLoop(sq, i + 1)
                  mine == IF sq[i].duration_ms > VerySlowMs
                          THEN <<Finding("Very Slow Query Detected", i)>>
                          ELSE <<>>
              IN  [alerts |-> mine \o rest.alerts, raised |-> rest.raised]

\* stats.get('active_connections'), None when the key is missing.
StatsGet(st, key) == IF key \in DOMAIN st THEN st[key] ELSE Null

ActiveAlerts(st) ==
    IF Truthy(StatsGet(st, "active_connections"))
       /\ st["active_connections"] > ActiveThreshold
    THEN <<Finding("High Active Connection Count", 0)>>
    ELSE <<>>

CacheAlerts(st) ==
    IF "cache_hit_ratio" \in DOMAIN st
       /\ Truthy(st["cache_hit_ratio"])
       /\ st["cache_hit_ratio"] < CacheThreshold
    THEN <<Finding("Low Cache Hit Ratio", 0)>>
    ELSE <<>>

\* One call of check_and_alert on scripted driver responses: the exception
\* that escapes it ("none" when it returns), the alerts sent, the probe
\* results, and which probes met a driver error.
check_and_alert(dbt, slowResp, statsResp) ==
    LET sp == get_slow_queries(dbt, slowResp)
        slowErr == ProbesEntered(dbt) = 1 /\ slowResp.exc /= "none"
        base == [raised |-> "none", findings |-> <<>>, slow_queries |-> <<>>,
                 stats |-> EmptyStats, slowFailed |-> slowErr,
                 statsFailed |-> FALSE, probes |-> ProbesEntered(dbt),
                 slow_queries_count |-> Null]
    IN  IF sp.raised /= "none" THEN [base EXCEPT !.raised = sp.raised]
        ELSE
        LET loop == SlowLoop(sp.value, 1) IN
        IF loop.raised /= "none"
        THEN [base EXCEPT !.raised = loop.raised, !.findings = loop.alerts,
                          !.slow_queries = sp.value]
        ELSE
        LET dp == get_database_stats(dbt, statsResp)
            statsErr == ProbesEntered(dbt) = 1 /\ statsResp.exc /= "none"
            seen == [base EXCEPT !.findings = loop.alerts,
                                 !.slow_queries = sp.value,
                                 !.statsFailed = statsErr,
                                 !.probes = 2 * ProbesEntered(dbt)]
        IN  IF dp.raised /= "none" THEN [seen EXCEPT !.raised = dp.raised]
            ELSE [seen EXCEPT
                    !.findings = loop.alerts \o ActiveAlerts(dp.value)
                                             \o CacheAlerts(dp.value),
                    !.stats = dp.value,
                    !.slow_queries_count = Len(sp.value)]

----------------------------------------------------------------------------
(* State *)

VARIABLES
    db_type,         \* self.db_type
    connection,      \* self.connection: NoConnection or a session id
    nSessions,       \* sessions the driver has opened for this instance
    sessOpen,        \* the sessions that are open
    sessReclosed,    \* the sessions close() was called on when already closed
    netAttempts,     \* driver connect calls made by the last connect()
    pc,              \* idle | returned | checking | sleeping | stopped | exited
    interval,        \* monitor(): interval
    duration,        \* monitor(): duration
    elapsed,         \* time.time() - start_time
    check_count,     \* monitor(): check_count
    lastCheck,       \* how the last check_and_alert ended
    slow_queries,    \* check_and_alert(): slow_queries
    stats,           \* check_and_alert(): stats
    findings,        \* the send_alert calls of the last check_and_alert
    summary_count,   \* result['slow_queries_count'], Null when none
    slowFailed,      \* the slow-query probe met a driver error
    statsFailed,     \* the statistics probe met a driver error
    connectResult,   \* what the run's connect() returned: none | ok | failed
    stopCause,       \* why the last monitor() returned
    interruptedIn,   \* where a KeyboardInterrupt was delivered
    cyclesCompleted, \* check_and_alert calls of this run that returned
    cycleStartAt,    \* elapsed time at which the current cycle started
    runCloses,       \* close() calls made by this run of monitor()/main()
    probeCalls,      \* probe methods entered by this run
    exitCode         \* main(): the process exit code, Null while running

connVars == <<connection, nSessions, sessOpen, sessReclosed, netAttempts>>
checkVars == <<lastCheck, slow_queries, stats, findings, summary_count,
               slowFailed, statsFailed>>
runVars == <<interval, duration, elapsed, check_count, connectResult, stopCause,
             interruptedIn, cyclesCompleted, cycleStartAt, runCloses,
             probeCalls>>
vars == <<db_type, pc, exitCode, connVars, checkVars, runVars>>

\* The time one check_and_alert call takes, in seconds.
CycleTimes == {0, 1}

Intervals == 0..MaxSeconds
Durations == {NoDuration} \cup (0..MaxSeconds)

\* __init__, with db_type any tag.
Init ==
    /\ \E tag \in DbTags : db_type = Lower(tag)
    /\ connection = NoConnection
    /\ nSessions = 0
    /\ sessOpen = {}
    /\ sessReclosed = {}
    /\ netAttempts = 0
    /\ pc = "idle"
    /\ interval = 0
    /\ duration = NoDuration
    /\ elapsed = 0
    /\ check_count = 0
    /\ lastCheck = "none"
    /\ slow_queries = <<>>
    /\ stats = EmptyStats
    /\ findings = <<>>
    /\ summary_count = Null
    /\ slowFailed = FALSE
    /\ statsFailed = FALSE
    /\ connectResult = "none"
    /\ stopCause = "none"
    /\ interruptedIn = "none"
    /\ cyclesCompleted = 0
    /\ cycleStartAt = 0
    /\ runCloses = 0
    /\ probeCalls = 0
    /\ exitCode = Null

\* No check_and_alert result is held.
ResetCheck ==
    /\ lastCheck' = "none"
    /\ slow_queries' = <<>>
    /\ stats' = EmptyStats
    /\ findings' = <<>>
    /\ summary_count' = Null
    /\ slowFailed' = FALSE
    /\ statsFailed' = FALSE

\* No run of monitor() is in progress or remembered.
ResetRun ==
    /\ interval' = 0
    /\ duration' = NoDuration
    /\ elapsed' = 0
    /\ check_count' = 0
    /\ connectResult' = "none"
    /\ stopCause' = "none"
    /\ interruptedIn' = "none"
    /\ cyclesCompleted' = 0
    /\ cycleStartAt' = 0
    /\ runCloses' = 0
    /\ probeCalls' = 0

\* The variables a check_and_alert call with outcome r leaves behind.
RecordCheck(r) ==
    /\ lastCheck' = IF r.raised = "none" THEN "returned" ELSE "raised"
    /\ slow_queries' = r.slow_queries
    /\ stats' = r.stats
    /\ findings' = r.findings
    /\ summary_count' = r.slow_queries_count
    /\ slowFailed' = r.slowFailed
    /\ statsFailed' = r.statsFailed

----------------------------------------------------------------------------
(* connect and disconnect *)

\* Driver connect calls made by connect(): none for an unsupported tag,
\* which raises ValueError in the else branch.
NetworkAttempts(dbt) == IF dbt \in SupportedTypes THEN 1 ELSE 0

\* connect() returns True.
ConnectOk(dbt, driverOk) == dbt \in SupportedTypes /\ driverOk

\* The connection state as one value.
ConnState ==
    [connection |-> connection, nSessions |-> nSessions, sessOpen |-> sessOpen,
     sessReclosed |-> sessReclosed, netAttempts |-> netAttempts]

SetConnState(cs) ==
    /\ connection' = cs.connection
    /\ nSessions' = cs.nSessions
    /\ sessOpen' = cs.sessOpen
    /\ sessReclosed' = cs.sessReclosed
    /\ netAttempts' = cs.netAttempts

\* connect(): on success self.connection is the new session; an earlier
\* session is neither closed nor kept.  On failure nothing is assigned.
connect(cs, dbt, driverOk) ==
    IF ConnectOk(dbt, driverOk)
    THEN [cs EXCEPT !.connection = cs.nSessions + 1,
                    !.nSessions = cs.nSessions + 1,
                    !.sessOpen = cs.sessOpen \cup {cs.nSessions + 1},
                    !.netAttempts = NetworkAttempts(dbt)]
    ELSE [cs EXCEPT !.netAttempts = NetworkAttempts(dbt)]

\* Variant: a disconnect() that closes nothing.
DisconnectTargets_Never(conn) == {}

\* The sessions disconnect() calls close() on: `if self.connection:` holds
\* for every connection object, open or closed.
DisconnectTargets(conn) == IF conn /= NoConnection THEN {conn} ELSE {}

\* disconnect(): self.connection is not reset.
disconnect(cs) ==
    [cs EXCEPT !.sessOpen = cs.sessOpen \ DisconnectTargets(cs.connection),
               !.sessReclosed = cs.sessReclosed \cup
                                  (DisconnectTargets(cs.connection) \ cs.sessOpen)]

\* The caller holds the instance and no call is in progress.
ApiReady == pc = "idle"

Connect ==
    /\ ApiReady
    /\ \E driverOk \in BOOLEAN :
          /\ ConnectOk(db_type, driverOk) => nSessions < MaxSessions
          /\ SetConnState(connect(ConnState, db_type, driverOk))
    /\ UNCHANGED <<db_type, pc, exitCode, checkVars, runVars>>

Disconnect ==
    /\ ApiReady
    /\ SetConnState(disconnect(ConnState))
    /\ UNCHANGED <<db_type, pc, exitCode, checkVars, runVars>>

----------------------------------------------------------------------------
(* check_and_alert called by the holder of the instance *)

\* What the driver can answer on self.connection: None has no cursor()
\* (AttributeError), a closed session raises a driver error.
SlowScript ==
    IF connection = NoConnection
    THEN {[exc |-> "AttributeError", rows |-> <<>>]}
    ELSE IF connection \notin sessOpen
         THEN {[exc |-> "DriverError", rows |-> <<>>]}
         ELSE SlowResponses(db_type)

StatsScript ==
    IF connection = NoConnection
    THEN {[exc |-> "AttributeError", active |-> 100, cache |-> Null]}
    ELSE IF connection \notin sessOpen
         THEN {[exc |-> "DriverError", active |-> 100, cache |-> Null]}
         ELSE StatsResponses

CheckAndAlert ==
    /\ ApiReady
    /\ \E sr \in SlowScript, st \in StatsScript :
          \E r \in {check_and_alert(db_type, sr, st)} : RecordCheck(r)
    /\ pc' = "returned"
    /\ UNCHANGED <<db_type, exitCode, connVars, runVars>>

\* check_and_alert() or monitor() has returned (or raised) to the caller,
\* who goes on; the call's locals and result are gone.
Return ==
    /\ pc \in {"returned", "stopped"}
    /\ pc' = "idle"
    /\ ResetCheck
    /\ ResetRun
    /\ UNCHANGED <<db_type, exitCode, connVars>>

----------------------------------------------------------------------------
(* monitor *)

\* Variant: the result of connect() is not tested.
MonitorProceeds_IgnoresResult(connected) == TRUE

\* `if not self.connect(): ... return`
MonitorProceeds(connected) == connected

\* `if duration and (time.time() - start_time) >= duration:`
DurationReached(du, el) == Truthy(du) /\ el >= du

\* Variant: a handler inside the loop, which goes on with the next iteration.
AfterKeyboardInterrupt_InsideLoop(at) == "checking"

\* `except KeyboardInterrupt:` belongs to the try around the whole
\* `while True:` loop: wherever in the loop the interrupt is raised, the
\* loop is left.
AfterKeyboardInterrupt(at) == "stopped"

\* Leaving the try statement: `finally: self.disconnect()`.
StopRun(cause) ==
    /\ pc' = "stopped"
    /\ stopCause' = cause
    /\ SetConnState(disconnect(ConnState))
    /\ runCloses' = runCloses + Cardinality(DisconnectTargets(connection))

\* monitor() up to the first `check_count += 1`.
MonitorStart ==
    /\ ApiReady
    /\ \E iv \in Intervals, du \in Durations, driverOk \in BOOLEAN :
          /\ ConnectOk(db_type, driverOk) => nSessions < MaxSessions
          /\ SetConnState(connect(ConnState, db_type, driverOk))
          /\ interval' = iv
          /\ duration' = du
          /\ connectResult' = IF ConnectOk(db_type, driverOk) THEN "ok" ELSE "failed"
          /\ IF MonitorProceeds(ConnectOk(db_type, driverOk))
             THEN pc' = "checking" /\ check_count' = 1 /\ stopCause' = "none"
             ELSE pc' = "stopped" /\ check_count' = 0
                  /\ stopCause' = "connect_failed"
    /\ elapsed' = 0
    /\ interruptedIn' = "none"
    /\ cyclesCompleted' = 0
    /\ cycleStartAt' = 0
    /\ runCloses' = 0
    /\ probeCalls' = 0
    /\ ResetCheck
    /\ UNCHANGED <<db_type, exitCode>>

\* One check_and_alert call of the loop and the duration test after it.
MonitorCheck ==
    /\ pc = "checking"
    /\ \E sr \in SlowScript, st \in StatsScript, t \in CycleTimes :
          \E r \in {check_and_alert(db_type, sr, st)} :
          /\ RecordCheck(r)
          /\ elapsed' = elapsed + t
          /\ probeCalls' = probeCalls + r.probes
          /\ IF r.raised /= "none"
             THEN StopRun("error") /\ UNCHANGED cyclesCompleted
             ELSE /\ cyclesCompleted' = cyclesCompleted + 1
                  /\ IF DurationReached(duration, elapsed + t)
                     THEN StopRun("duration")
                     ELSE /\ pc' = "sleeping"
                          /\ UNCHANGED <<connVars, stopCause, runCloses>>
    /\ UNCHANGED <<db_type, exitCode, interval, duration, check_count,
                   connectResult, interruptedIn, cycleStartAt>>

\* What the handler of a KeyboardInterrupt raised at `at` leads to.
OnKeyboardInterrupt(at) ==
    /\ interruptedIn' = at
    /\ IF AfterKeyboardInterrupt(at) = "stopped"
       THEN StopRun("interrupt")
       ELSE /\ pc' = AfterKeyboardInterrupt(at)
            /\ UNCHANGED <<connVars, stopCause, runCloses>>

\* A KeyboardInterrupt raised inside check_and_alert: no probe catches it
\* (it is no Exception), so the call is left where it stands, after some
\* of its probes; it returns nothing, and no result of it is held.
InterruptChecking ==
    /\ pc = "checking"
    /\ \E t \in CycleTimes, p \in 0..(2 * ProbesEntered(db_type)) :
          /\ probeCalls' = probeCalls + p
          /\ elapsed' = elapsed + t
    /\ lastCheck' = "interrupted"
    /\ slow_queries' = <<>>
    /\ stats' = EmptyStats
    /\ findings' = <<>>
    /\ summary_count' = Null
    /\ slowFailed' = FALSE
    /\ statsFailed' = FALSE
    /\ OnKeyboardInterrupt("checking")
    /\ UNCHANGED <<db_type, exitCode, interval, duration, check_count,
                   connectResult, cyclesCompleted, cycleStartAt>>

\* time.sleep(interval) returns and the loop starts its next cycle.
Wake ==
    /\ pc = "sleeping"
    /\ check_count < MaxChecks
    /\ pc' = "checking"
    /\ elapsed' = elapsed + interval
    /\ cycleStartAt' = elapsed + interval
    /\ check_count' = check_count + 1
    /\ ResetCheck
    /\ UNCHANGED <<db_type, exitCode, connVars, interval, duration,
                   connectResult, stopCause, interruptedIn, cyclesCompleted,
                   runCloses, probeCalls>>

\* A KeyboardInterrupt raised inside time.sleep(interval).
InterruptSleeping ==
    /\ pc = "sleeping"
    /\ OnKeyboardInterrupt("sleeping")
    /\ UNCHANGED <<db_type, exitCode, checkVars, interval, duration, elapsed,
                   check_count, connectResult, cyclesCompleted, cycleStartAt,
                   probeCalls>>

----------------------------------------------------------------------------
(* main *)

\* main() on its own fresh instance: db_type = 'postgresql'.
Main ==
    /\ pc = "idle"
    /\ db_type = "postgresql"
    /\ nSessions = 0
    /\ lastCheck = "none"
    /\ exitCode = Null
    /\ \E driverOk \in BOOLEAN, sr \in SlowResponses(db_type), st \in StatsResponses :
          LET cs == connect(ConnState, db_type, driverOk)
              r == check_and_alert(db_type, sr, st)
          IN  IF ~ConnectOk(db_type, driverOk)
              THEN /\ SetConnState(cs)
                   /\ connectResult' = "failed"
                   /\ exitCode' = 1
                   /\ ResetCheck
                   /\ UNCHANGED <<runCloses, probeCalls>>
              ELSE /\ SetConnState(disconnect(cs))
                   /\ connectResult' = "ok"
                   /\ runCloses' = Cardinality(DisconnectTargets(cs.connection))
                   /\ probeCalls' = r.probes
                   /\ RecordCheck(r)
                   /\ exitCode' = IF r.raised = "none" THEN 0 ELSE 1
    /\ pc' = "exited"
    /\ UNCHANGED <<db_type, interval, duration, elapsed, check_count, stopCause,
                   interruptedIn, cyclesCompleted, cycleStartAt>>

----------------------------------------------------------------------------
(* Specification *)

Next ==
    \/ Connect
    \/ Disconnect
    \/ CheckAndAlert
    \/ Return
    \/ MonitorStart
    \/ MonitorCheck
    \/ InterruptChecking
    \/ Wake
    \/ InterruptSleeping
    \/ Main

Spec == Init /\ [][Next]_vars

----------------------------------------------------------------------------
(* Properties *)

CountSubject(f, subject) ==
    Cardinality({i \in DOMAIN f : f[i].subject = subject})

\* C1: every run of monitor() whose connect() succeeded has closed its
\* session exactly once when the loop is stopped (by the duration limit, a
\* KeyboardInterrupt or an uncaught error of a cycle) and not before; a run
\* whose connect() failed performs no close.
C1_ClosedExactlyOnce ==
    /\ pc \in {"checking", "sleeping"} =>
          runCloses = 0 /\ connection \in sessOpen
    /\ (pc = "stopped" /\ connectResult = "ok") =>
          /\ stopCause \in {"duration", "interrupt", "error"}
          /\ runCloses = 1
          /\ connection \notin sessOpen
          /\ connection \notin sessReclosed
    /\ (pc = "stopped" /\ connectResult = "failed") => runCloses = 0

C1_Witness ==
    pc = "stopped" /\ stopCause = "error" /\ runCloses = 1 /\ nSessions = 2

\* C2 as stated: after a stop signal every cycle that was started has run
\* to completion, wherever the signal was delivered.
C2_Original ==
    stopCause = "interrupt" => cyclesCompleted = check_count

\* C2 amended: a stop signal delivered while sleeping stops the loop with
\* every started cycle completed and no further cycle started; a stop
\* signal delivered during a cycle is not deferred: the loop stops at once,
\* the cycle in progress is not completed, no further cycle is started, and
\* the session is closed.
C2_Amended ==
    [][(interruptedIn' /= interruptedIn /\ interruptedIn' /= "none") =>
          /\ pc' = "stopped"
          /\ stopCause' = "interrupt"
          /\ check_count' = check_count
          /\ cyclesCompleted' = cyclesCompleted
          /\ connection' \notin sessOpen'
          /\ pc = "sleeping" => cyclesCompleted = check_count
          /\ pc = "checking" =>
                cyclesCompleted = check_count - 1 /\ lastCheck' = "interrupted"
      ]_vars

C2_Witness ==
    pc = "stopped" /\ stopCause = "interrupt" /\ interruptedIn = "checking"
        /\ check_count = 2 /\ cyclesCompleted = 1

\* C3: when a probe meets a driver error, the probe yields an empty result,
\* check_and_alert returns, none of its findings comes from the failed
\* probe, and the monitor loop is not stopped by it: it sleeps, or stops
\* only because the duration limit is reached or a stop signal arrives.
C3_ProbeFailureAbsorbed ==
    (slowFailed \/ statsFailed) =>
        /\ lastCheck = "returned"
        /\ slowFailed =>
              /\ slow_queries = <<>>
              /\ CountSubject(findings, "Very Slow Query Detected") = 0
        /\ statsFailed =>
              /\ DOMAIN stats = {}
              /\ CountSubject(findings, "High Active Connection Count") = 0
              /\ CountSubject(findings, "Low Cache Hit Ratio") = 0
        /\ stopCause /= "error"
        /\ check_count > 0 =>
              \/ pc = "sleeping"
              \/ /\ pc = "stopped"
                 /\ stopCause = "duration"
                 /\ DurationReached(duration, elapsed)
              \/ /\ pc = "stopped"
                 /\ stopCause = "interrupt"
                 /\ interruptedIn = "sleeping"

C3_Witness ==
    pc = "sleeping" /\ statsFailed /\ ~slowFailed /\ Len(findings) = 2

\* C4 as stated: with a duration budget, every cycle of monitor() starts at
\* an elapsed time strictly below the duration.
C4_Original ==
    (pc = "checking" /\ duration /= NoDuration /\ duration > 0) =>
        cycleStartAt < duration

\* C5 as stated: disconnect() never calls close() on a session that is
\* already closed.
C5_Original == sessReclosed = {}

\* C6 as stated: at most one session opened by the instance is open.
C6_Original == Cardinality(sessOpen) <= 1

\* C7 as stated: a check_and_alert call that returns has sent exactly one
\* "Low Cache Hit Ratio" finding when cache_hit_ratio is present with a
\* value below 95, and none otherwise.
C7_Original ==
    lastCheck = "returned" =>
        CountSubject(findings, "Low Cache Hit Ratio") =
            IF /\ "cache_hit_ratio" \in DOMAIN stats
               /\ stats["cache_hit_ratio"] /= Null
               /\ stats["cache_hit_ratio"] < CacheThreshold
            THEN 1 ELSE 0

\* C8: when the run's connect() fails, monitor() stops without a cycle, a
\* probe or a second connection attempt, and for an unsupported db_type
\* without any driver connect call.
C8_ConnectFailureIsFatal ==
    connectResult = "failed" =>
        /\ pc \in {"stopped", "exited"}
        /\ pc = "stopped" => stopCause = "connect_failed"
        /\ check_count = 0
        /\ cyclesCompleted = 0
        /\ lastCheck = "none"
        /\ probeCalls = 0
        /\ netAttempts <= 1
        /\ db_type \notin SupportedTypes => netAttempts = 0

C8_Witness ==
    pc = "stopped" /\ connectResult = "failed" /\ db_type \notin SupportedTypes
        /\ netAttempts = 0

\* C9 as stated: main(), once connected, makes one check_and_alert call
\* whose summary counts the records of the slow-query probe, closes the
\* session and exits with code 0.
C9_Original ==
    (pc = "exited" /\ connectResult = "ok") =>
        /\ lastCheck = "returned"
        /\ summary_count = Len(slow_queries)
        /\ runCloses = 1
        /\ connection \notin sessOpen
        /\ exitCode = 0

VerySlowPositions(sq) ==
    SelectSeq([i \in 1..Len(sq) |-> i], LAMBDA i : sq[i].duration_ms > VerySlowMs)

VerySlowFindings(f) ==
    SelectSeq(f, LAMBDA x : x.subject = "Very Slow Query Detected")

\* C10 as stated: a check_and_alert call sends one "Very Slow Query
\* Detected" finding for each record with duration_ms > 5000 and for no
\* other record, in the order of the records and before any other finding.
C10_Original ==
    lastCheck \in {"returned", "raised"} =>
        /\ Len(VerySlowFindings(findings)) = Len(VerySlowPositions(slow_queries))
        /\ \A i \in 1..Len(VerySlowFindings(findings)) :
              i <= Len(VerySlowPositions(slow_queries))
                 => VerySlowFindings(findings)[i].rec = VerySlowPositions(slow_queries)[i]
        /\ \A i, j \in DOMAIN findings :
              (i < j /\ findings[j].subject = "Very Slow Query Detected")
                 => findings[i].subject = "Very Slow Query Detected"

====
